---- MODULE Spec2Model ----
(***************************************************************************)
(* A model of persistent_set<T>: an unbalanced binary search tree whose    *)
(* nodes are held by std::shared_ptr and copied along the search path on   *)
(* every insert and erase.  The heap is modelled explicitly: every node    *)
(* has an address, two child pointers and a reference count, and a node is *)
(* freed when its count drops to zero, as shared_ptr does.                 *)
(***************************************************************************)
EXTENDS Integers, Sequences, FiniteSets, TLC

\* Bounds of the model.
NumHandles == 2
MaxVal == 4

Handles == 1..NumHandles

\* The elements: all of them where one handle is exercised alone, one fewer
\* where several handles share nodes.
Values == 1..MaxVal
SharedValues == 1..(MaxVal - 1)

\* Addresses of heap nodes: what the handles own, and the at most MaxVal nodes
\* one call allocates before the old path is released.
NumIds == NumHandles * (MaxVal - 1) + MaxVal
Ids == 1..NumIds

\* m_size is capped: a moved-from handle keeps its old m_size, so repeated
\* move + insert would let the counter grow without bound.
MaxSize == MaxVal

Null == 0
NoVal == 0

VARIABLES
  heap,    \* Ids -> node cell [value, left, right, rc]; rc = 0: not allocated
  live,    \* Handles -> BOOLEAN: the persistent_set object exists
  m_root,  \* Handles -> sentinel node [value, left, right]
  m_size,  \* Handles -> Nat
  it,      \* an iterator the caller holds: [node, set]
  elem,    \* the element `it` was obtained for; NoVal once `it` is end(),
           \* that element has been erased through it.set, or it is unknown
  last     \* the last call and what it returned

vars == <<heap, live, m_root, m_size, it, elem, last>>

----------------------------------------------------------------------------
\* struct node and std::shared_ptr<node>

FreeCell == [value |-> NoVal, left |-> Null, right |-> Null, rc |-> 0]

\* node() = default: all three shared_ptr members are empty.
EmptyNode == [value |-> NoVal, left |-> Null, right |-> Null]

\* An initializer is evaluated once and its value named: With(e, F) is F(e).
With(e, F(_)) == CHOOSE r \in {F(x) : x \in {e}} : TRUE

\* Copying a shared_ptr<node>: one more owner.
Acquire(hp, id) == IF id = Null THEN hp ELSE [hp EXCEPT ![id].rc = @ + 1]

\* Destroying or resetting a shared_ptr<node>: one owner less; the last owner
\* destroys the node, which destroys its left and right members in turn.
RECURSIVE Release(_, _)
Release(hp0, id) ==
  IF id = Null THEN hp0
  ELSE With(hp0, LAMBDA hp :
         IF hp[id].rc > 1 THEN [hp EXCEPT ![id].rc = @ - 1]
         ELSE Release(Release([hp EXCEPT ![id] = FreeCell], hp[id].left),
                      hp[id].right))

\* The address the allocator hands out: the lowest free one.
FreshId(hp) == CHOOSE i \in Ids : hp[i].rc = 0 /\ \A j \in 1..(i - 1) : hp[j].rc # 0

\* An allocation context: the heap, the local sentinel copy `tmp` of the
\* running insert/erase, the number of allocations that still succeed, and
\* whether an exception is in flight.
Ctx(hp, tmp, fuel) == [hp |-> hp, tmp |-> tmp, fuel |-> fuel, ok |-> TRUE]

NoFail == NumIds + 1

\* The address of the local sentinel copy tmp.
TmpAddr == 0 - (NumHandles + 1)

Cell(st, p) == IF p = TmpAddr THEN st.tmp ELSE st.hp[p]

SetLeft(st, p, x) ==
  IF p = TmpAddr THEN [st EXCEPT !.tmp.left = x] ELSE [st EXCEPT !.hp[p].left = x]

SetRight(st, p, x) ==
  IF p = TmpAddr THEN [st EXCEPT !.tmp.right = x] ELSE [st EXCEPT !.hp[p].right = x]

\* std::make_shared<node>(*src): node(node const&) shares value, left, right.
\* Returns the context and the new address (Null when the allocation threw).
MakeCopy(st, src) ==
  IF st.fuel = 0 THEN [st |-> [st EXCEPT !.ok = FALSE], id |-> Null]
  ELSE With(FreshId(st.hp), LAMBDA id :
         [st |-> [st EXCEPT
                    !.hp = [Acquire(Acquire(st.hp, st.hp[src].left), st.hp[src].right)
                              EXCEPT ![id] = [value |-> st.hp[src].value,
                                              left |-> st.hp[src].left,
                                              right |-> st.hp[src].right,
                                              rc |-> 1]],
                    !.fuel = @ - 1],
          id |-> id])

\* std::make_shared<node>(value): node(T const&), no children.
MakeLeaf(st, v) ==
  IF st.fuel = 0 THEN [st |-> [st EXCEPT !.ok = FALSE], id |-> Null]
  ELSE With(FreshId(st.hp), LAMBDA id :
         [st |-> [st EXCEPT
                    !.hp = [st.hp EXCEPT ![id] = [value |-> v, left |-> Null,
                                                  right |-> Null, rc |-> 1]],
                    !.fuel = @ - 1],
          id |-> id])

\* A variant that descends into p->left without copying it.
CopyLeftInPlace(st, p) == [st |-> st, id |-> Cell(st, p).left]

\* p->left = std::make_shared<node>(*p->left): the copy is made, then the
\* assignment releases what p->left held.
CopyLeft(st, p) ==
  With(MakeCopy(st, Cell(st, p).left), LAMBDA a :
    IF ~a.st.ok THEN a
    ELSE [st |-> [SetLeft(a.st, p, a.id) EXCEPT
                    !.hp = Release(SetLeft(a.st, p, a.id).hp, Cell(st, p).left)],
          id |-> a.id])

\* A variant that descends into p->right without copying it.
CopyRightInPlace(st, p) == [st |-> st, id |-> Cell(st, p).right]

\* p->right = std::make_shared<node>(*p->right)
CopyRight(st, p) ==
  With(MakeCopy(st, Cell(st, p).right), LAMBDA a :
    IF ~a.st.ok THEN a
    ELSE [st |-> [SetRight(a.st, p, a.id) EXCEPT
                    !.hp = Release(SetRight(a.st, p, a.id).hp, Cell(st, p).right)],
          id |-> a.id])

\* p->left = std::make_shared<node>(v), p->left empty before
LeafLeft(st, p, v) ==
  With(MakeLeaf(st, v), LAMBDA a :
    IF ~a.st.ok THEN a.st ELSE SetLeft(a.st, p, a.id))

\* A variant that hangs the new leaf on the left.
LeafRightOnLeft(st, p, v) ==
  With(MakeLeaf(st, v), LAMBDA a :
    IF ~a.st.ok THEN a.st ELSE SetLeft(a.st, p, a.id))

\* p->right = std::make_shared<node>(v), p->right empty before
LeafRight(st, p, v) ==
  With(MakeLeaf(st, v), LAMBDA a :
    IF ~a.st.ok THEN a.st ELSE SetRight(a.st, p, a.id))

----------------------------------------------------------------------------
\* Iterators: (node_ptr, set_ptr).  The address of handle h's own sentinel
\* m_root is written Sent(h).

Sent(h) == 0 - h
Iter(n, h) == [node |-> n, set |-> h]
NoIt == Iter(Null, 0)

end(h) == Iter(Sent(h), h)

\* i.node_ptr points at a node that has not been destroyed.
Allocated(hp, i) == i.node \in Ids /\ hp[i.node].rc > 0

\* operator*: *node_ptr->value, for an iterator to a node that exists.
ValueAt(hp, i) == IF Allocated(hp, i) THEN hp[i.node].value ELSE NoVal

RECURSIVE LeftMost(_, _)
LeftMost(hp, p) == IF hp[p].left # Null THEN LeftMost(hp, hp[p].left) ELSE p

\* begin(): walk left from the sentinel; `sent` is the handle's m_root.
begin(hp, sent, h) ==
  IF sent.left # Null THEN Iter(LeftMost(hp, sent.left), h) ELSE Iter(Sent(h), h)

\* A variant that does not fall back on ptr when the left subtree has no
\* candidate.
RECURSIVE lower_bound_rec_no_candidate(_, _, _, _)
lower_bound_rec_no_candidate(hp, h, ptr, value) ==
  IF ptr = Null THEN end(h)
  ELSE IF hp[ptr].value = value THEN Iter(ptr, h)
  ELSE IF value > hp[ptr].value
       THEN lower_bound_rec_no_candidate(hp, h, hp[ptr].right, value)
       ELSE lower_bound_rec_no_candidate(hp, h, hp[ptr].left, value)

RECURSIVE lower_bound_rec(_, _, _, _)
lower_bound_rec(hp, h, ptr, value) ==
  IF ptr = Null THEN end(h)
  ELSE IF hp[ptr].value = value THEN Iter(ptr, h)
  ELSE IF value > hp[ptr].value THEN lower_bound_rec(hp, h, hp[ptr].right, value)
  ELSE LET i == lower_bound_rec(hp, h, hp[ptr].left, value)
       IN IF i = end(h) THEN Iter(ptr, h) ELSE i

\* A variant that also goes left at a node equal to value.
RECURSIVE upper_bound_rec_le(_, _, _, _)
upper_bound_rec_le(hp, h, ptr, value) ==
  IF ptr = Null THEN end(h)
  ELSE IF value <= hp[ptr].value
       THEN LET i == upper_bound_rec_le(hp, h, hp[ptr].left, value)
            IN IF i = end(h) THEN Iter(ptr, h) ELSE i
       ELSE upper_bound_rec_le(hp, h, hp[ptr].right, value)

RECURSIVE upper_bound_rec(_, _, _, _)
upper_bound_rec(hp, h, ptr, value) ==
  IF ptr = Null THEN end(h)
  ELSE IF value < hp[ptr].value
       THEN LET i == upper_bound_rec(hp, h, hp[ptr].left, value)
            IN IF i = end(h) THEN Iter(ptr, h) ELSE i
       ELSE upper_bound_rec(hp, h, hp[ptr].right, value)

lower_bound(hp, sent, h, value) == lower_bound_rec(hp, h, sent.left, value)

upper_bound(hp, sent, h, value) == upper_bound_rec(hp, h, sent.left, value)

\* A variant without the test for equality.
find_unfiltered(hp, sent, h, value) == lower_bound(hp, sent, h, value)

find(hp, sent, h, value) ==
  LET lb == lower_bound(hp, sent, h, value)
  IN IF lb = end(h) \/ hp[lb.node].value # value THEN end(h) ELSE lb

\* A variant that also takes a node equal to value as a candidate.
RECURSIVE rev_upper_bound_rec_ge(_, _, _, _)
rev_upper_bound_rec_ge(hp, h, ptr, value) ==
  IF ptr = Null THEN end(h)
  ELSE IF value >= hp[ptr].value
       THEN LET i == rev_upper_bound_rec_ge(hp, h, hp[ptr].right, value)
            IN IF i = end(h) THEN Iter(ptr, h) ELSE i
       ELSE rev_upper_bound_rec_ge(hp, h, hp[ptr].left, value)

RECURSIVE rev_upper_bound_rec(_, _, _, _)
rev_upper_bound_rec(hp, h, ptr, value) ==
  IF ptr = Null THEN end(h)
  ELSE IF value > hp[ptr].value
       THEN LET i == rev_upper_bound_rec(hp, h, hp[ptr].right, value)
            IN IF i = end(h) THEN Iter(ptr, h) ELSE i
       ELSE rev_upper_bound_rec(hp, h, hp[ptr].left, value)

RECURSIVE RightMost(_, _)
RightMost(hp, p) == IF hp[p].right # Null THEN RightMost(hp, hp[p].right) ELSE p

\* rev_upper_bound(T* value): value = NoVal stands for the null pointer the
\* sentinel holds; the tree is not empty then.
rev_upper_bound(hp, sent, h, value) ==
  IF value = NoVal THEN Iter(RightMost(hp, sent.left), h)
  ELSE rev_upper_bound_rec(hp, h, sent.left, value)

\* operator++ on an iterator i that is not end(): the set of iterators it can
\* become.  When the node i points at has been destroyed, *node_ptr->value
\* reads freed memory and any value may be read.
operator_inc(hp, sent, h, i) ==
  IF Allocated(hp, i) THEN {upper_bound(hp, sent, h, hp[i.node].value)}
  ELSE {upper_bound(hp, sent, h, v) : v \in 0..MaxVal}

\* operator--: the set of iterators i can become; for end() the tree is not
\* empty.  When the node has been destroyed, node_ptr->value.get() is any
\* pointer: null, or one to any value.
operator_dec(hp, sent, h, i) ==
  IF i = end(h) THEN {rev_upper_bound(hp, sent, h, NoVal)}
  ELSE IF Allocated(hp, i) THEN {rev_upper_bound(hp, sent, h, hp[i.node].value)}
  ELSE {rev_upper_bound(hp, sent, h, v) :
          v \in (1..(MaxVal + 1)) \cup (IF sent.left # Null THEN {NoVal} ELSE {})}

\* What a loop `for (i = s.begin(); i != s.end(); ++i)` visits: operator++
\* re-derives the next position as upper_bound(*i) on the current tree.
RECURSIVE IterFrom(_, _, _, _)
IterFrom(hp, sent, h, i) ==
  IF i = end(h) THEN <<>>
  ELSE <<hp[i.node].value>> \o
       IterFrom(hp, sent, h, upper_bound(hp, sent, h, hp[i.node].value))

IterSeq(hp, sent, h) == IterFrom(hp, sent, h, begin(hp, sent, h))

\* What a loop `for (r = s.rbegin(); r != s.rend(); ++r)` visits.  r wraps an
\* iterator cur, end() at first; r != rend() is cur != begin(), *r is
\* *--copy of cur, and ++r is --cur.  At most `steps` elements are visited.
RECURSIVE RevFrom(_, _, _, _, _)
RevFrom(hp, sent, h, cur, steps) ==
  IF cur = begin(hp, sent, h) \/ steps = 0 THEN <<>>
  ELSE With(CHOOSE p \in operator_dec(hp, sent, h, cur) : TRUE, LAMBDA p :
         <<ValueAt(hp, p)>> \o RevFrom(hp, sent, h, p, steps - 1))

RevSeq(hp, sent, h) == RevFrom(hp, sent, h, end(h), MaxVal + 1)

\* The nodes reachable from a pointer.
RECURSIVE Nodes(_, _)
Nodes(hp, p) ==
  IF p = Null THEN {} ELSE {p} \cup Nodes(hp, hp[p].left) \cup Nodes(hp, hp[p].right)

Elems(hp, sent) == {hp[n].value : n \in Nodes(hp, sent.left)}

----------------------------------------------------------------------------
\* persistent_set::insert(node& next, T const& val): `n` is the address of
\* the freshly copied node `next`.
RECURSIVE insert_rec(_, _, _)
insert_rec(st0, n, val) ==
  With(st0, LAMBDA st :
    IF val < st.hp[n].value
    THEN IF st.hp[n].left # Null
         THEN With(CopyLeft(st, n), LAMBDA a :
                IF ~a.st.ok THEN a.st ELSE insert_rec(a.st, a.id, val))
         ELSE LeafLeft(st, n, val)
    ELSE IF st.hp[n].right # Null
         THEN With(CopyRight(st, n), LAMBDA a :
                IF ~a.st.ok THEN a.st ELSE insert_rec(a.st, a.id, val))
         ELSE LeafRight(st, n, val))

\* The try block of insert up to, not including, `m_root = std::move(tmp)`:
\* build the new path under the local copy tmp of the sentinel.
insert_build(st, value) ==
  IF st.tmp.left # Null
  THEN With(CopyLeft(st, TmpAddr), LAMBDA a :
         IF ~a.st.ok THEN a.st ELSE insert_rec(a.st, a.id, value))
  ELSE LeafLeft(st, TmpAddr, value)

\* Throw points of one insert/erase call.  A positive k <= MaxVal means the
\* k-th node allocation of the call throws (a comparison that throws between
\* two allocations leaves the same partial path behind as the later
\* allocation failing); AtFind is the lookup before the try block of insert,
\* AtReturn the lookup in the return statement, after the new root is stored.
AtFind == 0
AtReturn == MaxVal + 1
NoThrow == MaxVal + 2
ThrowPoints == AtFind..AtReturn

Fuel(f) == IF f \in 1..MaxVal THEN f - 1 ELSE NoFail

\* catch (...) { m_root = back_up; m_size = back_up_size; throw; }
\* node::operator=(node const&) copies back_up and swaps; the copy, which now
\* holds what m_root held, is destroyed.
\* A variant of the handler that restores m_root and not m_size.
rollback_root_only(hp, cur, cur_size, back_up, back_up_size) ==
  [hp |-> Release(Acquire(hp, back_up.left), cur.left),
   root |-> back_up,
   size |-> cur_size]

\* (cur, cur_size) are m_root and m_size when the handler is entered.
rollback(hp, cur, cur_size, back_up, back_up_size) ==
  [hp |-> Release(Acquire(hp, back_up.left), cur.left),
   root |-> back_up,
   size |-> back_up_size]

Outcome(hp, root, size, ret, flag, thrown) ==
  [hp |-> hp, root |-> root, size |-> size, ret |-> ret, flag |-> flag,
   thrown |-> thrown]

\* The call left by an exception: the handler has run and back_up, the last
\* local, is destroyed.
Thrown(c, back_up) ==
  Outcome(Release(c.hp, back_up.left), c.root, c.size, NoIt, FALSE, TRUE)

\* insert from `auto back_up = m_root` on: value is not in the set.
insert_new(hp, sent, size, h, value, f) ==
  \* auto back_up = m_root; node tmp = m_root; then the new path
  With(insert_build(Ctx(Acquire(Acquire(hp, sent.left), sent.left), sent, Fuel(f)),
                    value),
       LAMBDA b :
    IF ~b.ok
    THEN \* tmp is destroyed by unwinding, then the handler runs
         Thrown(rollback(Release(b.hp, b.tmp.left), sent, size, sent, size), sent)
    ELSE \* m_root = std::move(tmp); ++m_size
         IF f = AtReturn
         THEN Thrown(rollback(Release(b.hp, sent.left), b.tmp, size + 1, sent, size),
                     sent)
         ELSE With(Release(Release(b.hp, sent.left), sent.left), LAMBDA hp4 :
                Outcome(hp4, b.tmp, size + 1, find(hp4, b.tmp, h, value),
                        TRUE, FALSE)))

\* A variant without the lookup that returns early.
insert_unchecked(hp, sent, size, h, value, f) ==
  insert_new(hp, sent, size, h, value, f)

\* std::pair<iterator, bool> insert(T const& value) on handle h whose members
\* are (sent, size); f is the throw point.
insert(hp, sent, size, h, value, f) ==
  IF f = AtFind /\ sent.left # Null
  THEN Outcome(hp, sent, size, NoIt, FALSE, TRUE)
  ELSE IF find(hp, sent, h, value) # end(h)
  THEN Outcome(hp, sent, size, find(hp, sent, h, value), FALSE, FALSE)
  ELSE insert_new(hp, sent, size, h, value, f)

----------------------------------------------------------------------------
\* A variant that always hangs what is left of son on parent->right.
erase_impl_right(st, parent, son) ==
  LET s == st.hp[son]
      p == Cell(st, parent)
      c == IF s.left # Null THEN s.left ELSE s.right
  IN [SetRight(st, parent, c) EXCEPT !.hp = Release(Acquire(@, c), p.right)]

\* void erase_impl(node* parent, node* son)
erase_impl(st, parent, son) ==
  LET s == st.hp[son]
      p == Cell(st, parent)
      c == IF s.left # Null THEN s.left ELSE s.right
  IN IF s.left = Null /\ s.right = Null
     THEN IF p.left = son
          THEN [SetLeft(st, parent, Null) EXCEPT !.hp = Release(@, p.left)]
          ELSE [SetRight(st, parent, Null) EXCEPT !.hp = Release(@, p.right)]
     ELSE IF p.left = son
          THEN [SetLeft(st, parent, c) EXCEPT !.hp = Release(Acquire(@, c), p.left)]
          ELSE [SetRight(st, parent, c) EXCEPT !.hp = Release(Acquire(@, c), p.right)]

\* A variant that leaves the two values where they are.
swap_values_skipped(st, a, b) == st

\* std::swap(prev->value, next->value)
swap_values(st, a, b) ==
  [st EXCEPT !.hp[a].value = st.hp[b].value, !.hp[b].value = st.hp[a].value]

\* The inner loop of the two-children case: copy the path to the rightmost
\* node of the left subtree, swap the values, unlink that node.
RECURSIVE erase_pred(_, _, _, _)
erase_pred(st0, target, tmp_prev, next) ==
  With(st0, LAMBDA st :
    IF st.hp[next].right # Null
    THEN With(CopyRight(st, next), LAMBDA a :
           IF ~a.st.ok THEN a.st ELSE erase_pred(a.st, target, next, a.id))
    ELSE With(swap_values(st, target, next), LAMBDA st1 :
           erase_impl(st1, tmp_prev, next)))

\* The while (true) loop of erase(T const& value, node* prev); next is the
\* fresh copy under prev.
RECURSIVE erase_loop(_, _, _, _)
erase_loop(st0, prev, next, value) ==
  With(st0, LAMBDA st :
    IF st.hp[next].value = value
    THEN IF st.hp[next].left # Null /\ st.hp[next].right # Null
         THEN With(CopyLeft(st, next), LAMBDA a :
                IF ~a.st.ok THEN a.st ELSE erase_pred(a.st, next, next, a.id))
         ELSE erase_impl(st, prev, next)
    ELSE IF value < st.hp[next].value
         THEN With(CopyLeft(st, next), LAMBDA a :
                IF ~a.st.ok THEN a.st ELSE erase_loop(a.st, next, a.id, value))
         ELSE With(CopyRight(st, next), LAMBDA a :
                IF ~a.st.ok THEN a.st ELSE erase_loop(a.st, next, a.id, value)))

\* void erase(T const& value, node* prev), called with prev = &tmp.
erase_path(st, value) ==
  With(CopyLeft(st, TmpAddr), LAMBDA a :
    IF ~a.st.ok THEN a.st ELSE erase_loop(a.st, TmpAddr, a.id, value))

\* iterator erase(iterator it) on handle h; i is a dereferenceable iterator.
erase(hp, sent, size, h, i, f) ==
  \* tmp_val = it.node_ptr->value; auto back_up = m_root; auto tmp = m_root
  With(hp[i.node].value, LAMBDA value :
  With(erase_path(Ctx(Acquire(Acquire(hp, sent.left), sent.left), sent, Fuel(f)),
                  value),
       LAMBDA b :
    IF ~b.ok
    THEN Thrown(rollback(Release(b.hp, b.tmp.left), sent, size, sent, size), sent)
    ELSE \* m_root = tmp; --m_size
         With(Release(Acquire(b.hp, b.tmp.left), sent.left), LAMBDA hp3 :
           IF f = AtReturn /\ b.tmp.left # Null
           THEN \* tmp is destroyed by unwinding, then the handler runs
                Thrown(rollback(Release(hp3, b.tmp.left), b.tmp, size - 1, sent, size),
                       sent)
           ELSE With(Release(Release(hp3, b.tmp.left), sent.left), LAMBDA hp4 :
                  Outcome(hp4, b.tmp, size - 1, lower_bound(hp4, b.tmp, h, value),
                          TRUE, FALSE)))))

----------------------------------------------------------------------------
\* The handle: construction, assignment, swap, clear.  w = [hp, root, size].

World(hp, root, size) == [hp |-> hp, root |-> root, size |-> size]

\* node::operator==: the three shared_ptr members are compared as pointers.
node_eq(lhs, rhs) ==
  lhs.left = rhs.left /\ lhs.right = rhs.right /\ lhs.value = rhs.value

\* operator==(persistent_set const&, persistent_set const&)
set_eq(w, a, b) == node_eq(w.root[a], w.root[b]) /\ w.size[a] = w.size[b]

\* persistent_set(persistent_set const& other)
copy_ctor(w, h, g) ==
  World(Acquire(w.hp, w.root[g].left),
        [w.root EXCEPT ![h] = w.root[g]],
        [w.size EXCEPT ![h] = w.size[g]])

\* persistent_set(persistent_set&& other): m_size is copied, m_root is moved
\* from, which leaves other's three pointers empty.
move_ctor(w, h, g) ==
  World(w.hp,
        [w.root EXCEPT ![h] = w.root[g], ![g] = EmptyNode],
        [w.size EXCEPT ![h] = w.size[g]])

\* A variant that exchanges the roots and not the sizes.
swap_roots_only(w, a, b) ==
  World(w.hp, [w.root EXCEPT ![a] = w.root[b], ![b] = w.root[a]], w.size)

\* void swap(persistent_set& other)
swap(w, a, b) ==
  World(w.hp,
        [w.root EXCEPT ![a] = w.root[b], ![b] = w.root[a]],
        [w.size EXCEPT ![a] = w.size[b], ![b] = w.size[a]])

\* ~persistent_set() of a temporary that holds (sent, size)
drop(hp, sent) == Release(hp, sent.left)

\* A variant whose guard compares the sizes only.
copy_assign_size_guard(w, h, g) ==
  IF w.size[h] = w.size[g] THEN w
  ELSE World(drop(Acquire(w.hp, w.root[g].left), w.root[h]),
             [w.root EXCEPT ![h] = w.root[g]],
             [w.size EXCEPT ![h] = w.size[g]])

\* operator=(persistent_set const& other): a temporary copy of other is
\* swapped with *this and destroyed.
copy_assign(w, h, g) ==
  IF set_eq(w, h, g) THEN w
  ELSE World(drop(Acquire(w.hp, w.root[g].left), w.root[h]),
             [w.root EXCEPT ![h] = w.root[g]],
             [w.size EXCEPT ![h] = w.size[g]])

\* operator=(persistent_set&& other): a temporary move-constructed from
\* other is swapped with *this and destroyed.
move_assign(w, h, g) ==
  IF set_eq(w, h, g) THEN w
  ELSE World(drop(w.hp, w.root[h]),
             [w.root EXCEPT ![g] = EmptyNode, ![h] = w.root[g]],
             [w.size EXCEPT ![h] = w.size[g]])

\* A variant that forgets the root without releasing it.
clear_unreleased(w, h) ==
  World(w.hp,
        [w.root EXCEPT ![h].left = Null],
        [w.size EXCEPT ![h] = 0])

\* void clear()
clear(w, h) ==
  World(Release(w.hp, w.root[h].left),
        [w.root EXCEPT ![h].left = Null],
        [w.size EXCEPT ![h] = 0])

----------------------------------------------------------------------------
\* Addresses.  Which address the allocator returns is not fixed by the
\* program, and no operation depends on it beyond pointer equality, so states
\* are kept up to a renaming of addresses: after every call the allocated
\* nodes are numbered in the order a preorder walk from handle 1, 2, ... meets
\* them (nodes no handle reaches, if any, follow in address order).  A
\* pointer to a node that has been freed becomes Dangling.

Dangling == NumIds + 1

RECURSIVE Preorder(_, _)
Preorder(hp, p) ==
  IF p = Null THEN <<>>
  ELSE <<p>> \o Preorder(hp, hp[p].left) \o Preorder(hp, hp[p].right)

RECURSIVE Walk(_, _, _)
Walk(hp, root, h) ==
  IF h > NumHandles THEN <<>>
  ELSE Preorder(hp, root[h].left) \o Walk(hp, root, h + 1)

RECURSIVE Dedup(_, _)
Dedup(s, seen) ==
  IF s = <<>> THEN <<>>
  ELSE IF Head(s) \in seen THEN Dedup(Tail(s), seen)
  ELSE <<Head(s)>> \o Dedup(Tail(s), seen \cup {Head(s)})

RECURSIVE Ascending(_)
Ascending(S) ==
  IF S = {} THEN <<>>
  ELSE LET m == CHOOSE x \in S : \A y \in S : x <= y
       IN <<m>> \o Ascending(S \ {m})

AddressOrder(hp, root) ==
  With(Walk(hp, root, 1), LAMBDA walk :
  With(Dedup(walk, {}), LAMBDA reached :
    reached \o
    Ascending({i \in Ids : hp[i].rc > 0} \ {reached[k] : k \in 1..Len(reached)})))

Rename(order, p) ==
  IF p <= Null THEN p
  ELSE IF \E k \in 1..Len(order) : order[k] = p
       THEN CHOOSE k \in 1..Len(order) : order[k] = p
       ELSE Dangling

RenameIter(order, i) == Iter(Rename(order, i.node), i.set)

RenameHeap(order, hp) ==
  [i \in Ids |->
     IF i <= Len(order)
     THEN [value |-> hp[order[i]].value,
           left |-> Rename(order, hp[order[i]].left),
           right |-> Rename(order, hp[order[i]].right),
           rc |-> hp[order[i]].rc]
     ELSE FreeCell]

----------------------------------------------------------------------------
\* The state machine.

\* The record of a call: the operation, the handle, the value argument, the
\* iterator and the flag returned, and in aux the other handle of a
\* two-handle operation, the throw point of a call that threw, or the number
\* of children of the node an erase was asked to remove.
Call(op, h, v, aux, ret, flag) ==
  [op |-> op, h |-> h, v |-> v, aux |-> aux, ret |-> ret, flag |-> flag]

W == World(heap, m_root, m_size)

\* The state after a call that left the world w, with `held` the iterator
\* the caller keeps and `call` the record of the call.
Commit(w0, held, call) ==
  \E w \in {w0} :
  \E order \in {AddressOrder(w.hp, w.root)} :
     /\ heap' = RenameHeap(order, w.hp)
     /\ m_root' = [h \in Handles |->
                     [w.root[h] EXCEPT !.left = Rename(order, w.root[h].left)]]
     /\ m_size' = w.size
     /\ it' = RenameIter(order, held)
     /\ elem' = IF held # it THEN ValueAt(w.hp, held)
                ELSE IF call.op = "erase" /\ call.h = it.set /\ call.v = elem
                     THEN NoVal
                     ELSE elem
     /\ last' = [call EXCEPT !.ret = RenameIter(order, call.ret)]

Init ==
  /\ heap = [i \in Ids |-> FreeCell]
  /\ live = [h \in Handles |-> h = 1]
  /\ m_root = [h \in Handles |-> EmptyNode]
  /\ m_size = [h \in Handles |-> 0]
  /\ it = NoIt
  /\ elem = NoVal
  /\ last = Call("ctor", 1, NoVal, 0, NoIt, FALSE)

DefaultCtor(h) ==
  /\ ~live[h]
  /\ live' = [live EXCEPT ![h] = TRUE]
  /\ Commit(World(heap, [m_root EXCEPT ![h] = EmptyNode], [m_size EXCEPT ![h] = 0]),
            it, Call("ctor", h, NoVal, 0, NoIt, FALSE))

CopyCtor(h, g) ==
  /\ ~live[h] /\ live[g]
  /\ live' = [live EXCEPT ![h] = TRUE]
  /\ Commit(copy_ctor(W, h, g), it, Call("copy_ctor", h, NoVal, g, NoIt, FALSE))

MoveCtor(h, g) ==
  /\ ~live[h] /\ live[g]
  /\ live' = [live EXCEPT ![h] = TRUE]
  /\ Commit(move_ctor(W, h, g), it, Call("move_ctor", h, NoVal, g, NoIt, FALSE))

Destroy(h) ==
  /\ live[h]
  /\ live' = [live EXCEPT ![h] = FALSE]
  /\ Commit(World(drop(heap, m_root[h]), [m_root EXCEPT ![h] = EmptyNode],
                  [m_size EXCEPT ![h] = 0]),
            it, Call("dtor", h, NoVal, 0, NoIt, FALSE))

CopyAssign(h, g) ==
  /\ live[h] /\ live[g]
  /\ Commit(copy_assign(W, h, g), it, Call("copy_assign", h, NoVal, g, NoIt, FALSE))
  /\ UNCHANGED live

MoveAssign(h, g) ==
  /\ live[h] /\ live[g]
  /\ Commit(move_assign(W, h, g), it, Call("move_assign", h, NoVal, g, NoIt, FALSE))
  /\ UNCHANGED live

Swap(h, g) ==
  /\ live[h] /\ live[g] /\ h # g
  /\ Commit(swap(W, h, g), it, Call("swap", h, NoVal, g, NoIt, FALSE))
  /\ UNCHANGED live

Clear(h) ==
  /\ live[h]
  /\ Commit(clear(W, h), it, Call("clear", h, NoVal, 0, NoIt, FALSE))
  /\ UNCHANGED live

\* The number of children of node n.
Kids(hp, n) ==
  (IF hp[n].left # Null THEN 1 ELSE 0) + (IF hp[n].right # Null THEN 1 ELSE 0)

\* The world after a call on handle h with outcome o.
After(h, o) ==
  World(o.hp, [m_root EXCEPT ![h] = o.root], [m_size EXCEPT ![h] = o.size])

Insert(h, v) ==
  /\ live[h] /\ m_size[h] < MaxSize
  /\ \E o \in {insert(heap, m_root[h], m_size[h], h, v, NoThrow)} :
        Commit(After(h, o), it, Call("insert", h, v, 0, o.ret, o.flag))
  /\ UNCHANGED live

InsertThrow(h, v, f) ==
  /\ live[h] /\ m_size[h] < MaxSize
  /\ \E o \in {insert(heap, m_root[h], m_size[h], h, v, f)} :
        /\ o.thrown
        /\ Commit(After(h, o), it, Call("insert_throw", h, v, f, NoIt, FALSE))
  /\ UNCHANGED live

\* s.erase(s.find(v)) for an element v of s
Erase(h, v) ==
  /\ live[h]
  /\ \E i \in {find(heap, m_root[h], h, v)} :
       /\ i # end(h)
       /\ \E o \in {erase(heap, m_root[h], m_size[h], h, i, NoThrow)} :
            Commit(After(h, o), it,
                   Call("erase", h, v, Kids(heap, i.node), o.ret, o.flag))
  /\ UNCHANGED live

EraseThrow(h, v, f) ==
  /\ live[h]
  /\ f # AtFind
  /\ \E i \in {find(heap, m_root[h], h, v)} :
       /\ i # end(h)
       /\ \E o \in {erase(heap, m_root[h], m_size[h], h, i, f)} :
            /\ o.thrown
            /\ Commit(After(h, o), it, Call("erase_throw", h, v, f, NoIt, FALSE))
  /\ UNCHANGED live

Find(h, v) ==
  /\ live[h]
  /\ Commit(W, it, Call("find", h, v, 0, find(heap, m_root[h], h, v), FALSE))
  /\ UNCHANGED live

LowerBound(h, v) ==
  /\ live[h]
  /\ Commit(W, it, Call("lower_bound", h, v, 0, lower_bound(heap, m_root[h], h, v), FALSE))
  /\ UNCHANGED live

UpperBound(h, v) ==
  /\ live[h]
  /\ Commit(W, it, Call("upper_bound", h, v, 0, upper_bound(heap, m_root[h], h, v), FALSE))
  /\ UNCHANGED live

\* The caller takes an iterator to element v of handle h and keeps it.
Hold(h, v) ==
  /\ live[h]
  /\ find(heap, m_root[h], h, v) # end(h)
  /\ Commit(W, find(heap, m_root[h], h, v),
            Call("hold", h, v, 0, find(heap, m_root[h], h, v), FALSE))
  /\ UNCHANGED live

\* The caller keeps end().
HoldEnd(h) ==
  /\ live[h]
  /\ Commit(W, end(h), Call("hold_end", h, NoVal, 0, end(h), FALSE))
  /\ UNCHANGED live

\* ++it on the iterator the caller holds, which is not end().
Increment(h) ==
  /\ live[h] /\ it.set = h /\ it # end(h)
  /\ \E r \in operator_inc(heap, m_root[h], h, it) :
       Commit(W, r, Call("incr", h, elem, 0, r, FALSE))
  /\ UNCHANGED live

\* --it on the iterator the caller holds; end() only of a set with a root.
Decrement(h) ==
  /\ live[h] /\ it.set = h
  /\ it = end(h) => m_root[h].left # Null
  /\ \E r \in operator_dec(heap, m_root[h], h, it) :
       Commit(W, r, Call("decr", h, elem, 0, r, FALSE))
  /\ UNCHANGED live

\* Every operation of the handle, over several handles that share nodes.
Next ==
  \/ \E h \in Handles : DefaultCtor(h)
  \/ \E h, g \in Handles : CopyCtor(h, g)
  \/ \E h, g \in Handles : MoveCtor(h, g)
  \/ \E h \in Handles : Destroy(h)
  \/ \E h, g \in Handles : CopyAssign(h, g)
  \/ \E h, g \in Handles : MoveAssign(h, g)
  \/ \E h, g \in Handles : Swap(h, g)
  \/ \E h \in Handles : Clear(h)
  \/ \E h \in Handles, v \in SharedValues : Insert(h, v)
  \/ \E h \in Handles, v \in SharedValues : Erase(h, v)

Spec == Init /\ [][Next]_vars

\* The same without the move constructor and move assignment.
NextNoMove ==
  \/ \E h \in Handles : DefaultCtor(h)
  \/ \E h, g \in Handles : CopyCtor(h, g)
  \/ \E h \in Handles : Destroy(h)
  \/ \E h, g \in Handles : CopyAssign(h, g)
  \/ \E h, g \in Handles : Swap(h, g)
  \/ \E h \in Handles : Clear(h)
  \/ \E h \in Handles, v \in SharedValues : Insert(h, v)
  \/ \E h \in Handles, v \in SharedValues : Erase(h, v)

SpecNoMove == Init /\ [][NextNoMove]_vars

\* One handle alone: the tree algorithms, exceptions, queries and a held
\* iterator, over all the values.
NextOne ==
  \/ \E v \in Values : Insert(1, v)
  \/ \E v \in Values, f \in ThrowPoints : InsertThrow(1, v, f)
  \/ \E v \in Values : Erase(1, v)
  \/ \E v \in Values, f \in ThrowPoints : EraseThrow(1, v, f)
  \/ Clear(1)
  \/ \E v \in Values : Find(1, v)
  \/ \E v \in Values : LowerBound(1, v)
  \/ \E v \in Values : UpperBound(1, v)
  \/ \E v \in Values : Hold(1, v)

SpecOne == Init /\ [][NextOne]_vars

\* One handle and an iterator the caller keeps and steps while the set is
\* changed.
NextIter ==
  \/ \E v \in Values : Insert(1, v)
  \/ \E v \in Values : Erase(1, v)
  \/ \E v \in Values : Hold(1, v)
  \/ HoldEnd(1)
  \/ Increment(1)
  \/ Decrement(1)

SpecIter == Init /\ [][NextIter]_vars

----------------------------------------------------------------------------
\* What the claims speak of.

\* The iteration sequence and the node count of handle h, now and after the
\* step.
Sequence(h) == IterSeq(heap, m_root[h], h)
SequenceAfter(h) == IterSeq(heap', m_root'[h], h)
Count(h) == Cardinality(Nodes(heap, m_root[h].left))

Range(s) == {s[k] : k \in 1..Len(s)}
StrictlyAscending(s) == \A j, k \in 1..Len(s) : j < k => s[j] < s[k]
Without(s, v) == SelectSeq(s, LAMBDA x : x # v)

\* i is an iterator to element x of the live handle h: it points at a node of
\* h's tree that holds x.
PointsAt(hp, root, h, i, x) ==
  /\ i.set = h
  /\ i.node \in Nodes(hp, root[h].left)
  /\ hp[i.node].value = x

\* C1: insert, erase or clear on one handle leaves the size and the iteration
\* sequence of every other live handle as they were, whether or not the two
\* share nodes (one being a copy of the other).
C1_Persistence ==
  [][\A h \in Handles :
       (last'.op \in {"insert", "erase", "clear"} /\ last'.h = h) =>
         \A g \in Handles \ {h} :
           live[g] => /\ m_size'[g] = m_size[g]
                      /\ SequenceAfter(g) = Sequence(g)]_vars

\* C1 witness: a handle was just mutated by insert or erase while another
\* handle still shares a node with it, and the two now differ.
C1_Witness ==
  \E h, g \in Handles :
    /\ h # g /\ live[h] /\ live[g]
    /\ last.op \in {"insert", "erase"} /\ last.h = h /\ last.flag
    /\ Nodes(heap, m_root[h].left) \cap Nodes(heap, m_root[g].left) # {}
    /\ Sequence(h) # Sequence(g)

\* C2: every insert call makes the iterated contents the old contents plus
\* the inserted value, in strictly ascending order, with end() reached after
\* exactly size() steps; the set starts empty.
C2_InsertsContents ==
  /\ Sequence(1) = <<>> /\ m_size[1] = 0
  /\ [][last'.op = "insert" =>
          /\ Range(SequenceAfter(1)) = Range(Sequence(1)) \cup {last'.v}
          /\ StrictlyAscending(SequenceAfter(1))
          /\ Len(SequenceAfter(1)) = m_size'[1]]_vars

\* C2 witness: all the values have been inserted, the last one just now.
C2_Witness ==
  /\ last.op = "insert" /\ last.flag
  /\ Sequence(1) = [k \in 1..MaxVal |-> k]
  /\ m_size[1] = MaxVal

\* C3: erase(find(v)) leaves find(v) == end(), size one less, and the
\* iteration sequence the old one without v.
C3_EraseRemoves ==
  [][last'.op = "erase" =>
       /\ find(heap', m_root'[1], 1, last'.v) = end(1)
       /\ m_size'[1] = m_size[1] - 1
       /\ SequenceAfter(1) = Without(Sequence(1), last'.v)]_vars

\* C3 witness: a node with two children was erased from a full set.
C3_Witness ==
  /\ last.op = "erase" /\ last.aux = 2
  /\ m_size[1] = MaxVal - 1

\* C4: an insert or erase that throws leaves size and iteration sequence as
\* they were.
C4_StrongGuarantee ==
  [][last'.op \in {"insert_throw", "erase_throw"} =>
       /\ m_size'[1] = m_size[1]
       /\ SequenceAfter(1) = Sequence(1)]_vars

\* C4 witness: an erase threw in its return statement, after the new root
\* and size had been stored.
C4_Witness ==
  /\ last.op = "erase_throw" /\ last.aux = AtReturn
  /\ m_size[1] >= 2

\* C5: two live handles compare equal exactly when they hold the same
\* elements.
C5_EqualityStructural ==
  \A a, b \in Handles :
    (live[a] /\ live[b]) =>
      (set_eq(W, a, b) <=> Range(Sequence(a)) = Range(Sequence(b)))

\* C6: after a move construction or move assignment the source handle's size
\* is the number of nodes under its root, and is 0 exactly when it has no root.
C6_MovedFromValid ==
  last.op \in {"move_ctor", "move_assign"} =>
    /\ m_size[last.aux] = Count(last.aux)
    /\ (m_size[last.aux] = 0 <=> m_root[last.aux].left = Null)

\* C7: an iterator to element x held across an insert, or an erase of another
\* element, still points at an allocated node that holds x.
C7_IteratorSurvives ==
  [][\A x \in Values :
       ( /\ last'.op \in {"insert", "erase"}
         /\ PointsAt(heap, m_root, 1, it, x)
         /\ ~(last'.op = "erase" /\ last'.v = x) ) =>
       ( /\ it'.node \in Ids
         /\ heap'[it'.node].rc > 0
         /\ heap'[it'.node].value = x )]_vars

\* C8: without moves, every live handle's size is the number of nodes under
\* its root, and is 0 exactly when it has no root.
C8_SizeIsCount ==
  \A h \in Handles :
    live[h] => /\ m_size[h] = Count(h)
               /\ (m_size[h] = 0 <=> m_root[h].left = Null)

\* C8 witness: two non-empty handles of different sizes were just swapped.
C8_Witness ==
  /\ last.op = "swap" /\ live[1] /\ live[2]
  /\ m_size[1] > 0 /\ m_size[2] > 0 /\ m_size[1] # m_size[2]

Least(S) == CHOOSE x \in S : \A y \in S : x <= y

\* The iterator i returned after the step is the one to the least element of
\* cands, or end() when cands is empty.
BoundAfter(i, cands) ==
  IF cands = {} THEN i = end(1)
  ELSE PointsAt(heap', m_root', 1, i, Least(cands))

\* C9: lower_bound(v) returns the smallest element >= v, upper_bound(v) the
\* smallest element > v, end() if there is none; neither changes the set.
C9_Bounds ==
  [][/\ last'.op = "lower_bound" =>
          /\ heap' = heap /\ m_root' = m_root /\ m_size' = m_size
          /\ BoundAfter(last'.ret, {e \in Elems(heap, m_root[1]) : e >= last'.v})
     /\ last'.op = "upper_bound" =>
          /\ heap' = heap /\ m_root' = m_root /\ m_size' = m_size
          /\ BoundAfter(last'.ret, {e \in Elems(heap, m_root[1]) : e > last'.v})]_vars

\* C9 witness: upper_bound of an element of the set returned a later element.
C9_Witness ==
  /\ last.op = "upper_bound"
  /\ last.v \in Elems(heap, m_root[1])
  /\ last.ret # end(1)
  /\ heap[last.ret.node].value > last.v

\* C10: insert of a present value returns (iterator to it, false) and leaves
\* the heap, the root, the size and the iteration sequence as they were;
\* insert of an absent value returns (iterator to it, true) and the size
\* grows by one.
C10_InsertIdempotent ==
  [][last'.op = "insert" =>
       /\ PointsAt(heap', m_root', 1, last'.ret, last'.v)
       /\ IF last'.v \in Elems(heap, m_root[1])
          THEN /\ ~last'.flag
               /\ heap' = heap /\ m_root' = m_root /\ m_size' = m_size
               /\ SequenceAfter(1) = Sequence(1)
          ELSE /\ last'.flag
               /\ m_size'[1] = m_size[1] + 1]_vars

\* C10 witness: an insert of a value already in the set returned false.
C10_Witness ==
  /\ last.op = "insert" /\ ~last.flag
  /\ last.v \in Elems(heap, m_root[1])
  /\ m_size[1] >= 2

\* C11: erase of element v returns the iterator to the smallest element
\* greater than v left in the set, a node of the handle's new tree, or end()
\* when v was the maximum.
C11_EraseReturnsNext ==
  [][last'.op = "erase" =>
       BoundAfter(last'.ret, {e \in Elems(heap, m_root[1]) : e > last'.v})]_vars

\* C11 witness: a node with two children was erased and the iterator
\* returned is not end().
C11_Witness ==
  /\ last.op = "erase" /\ last.aux = 2
  /\ last.ret # end(1)
  /\ last.ret.node \in Nodes(heap, m_root[1].left)

\* C12: find(e) returns an iterator to the node that holds e when e is in the
\* set and end() when it is not, and changes nothing.
C12_Find ==
  [][last'.op = "find" =>
       /\ heap' = heap /\ m_root' = m_root /\ m_size' = m_size
       /\ IF last'.v \in Elems(heap, m_root[1])
          THEN /\ last'.ret # end(1)
               /\ PointsAt(heap', m_root', 1, last'.ret, last'.v)
          ELSE last'.ret = end(1)]_vars

\* C12 witness: find of an element that is not at the root of a tree of at
\* least three nodes.
C12_Witness ==
  /\ last.op = "find" /\ last.ret # end(1)
  /\ last.ret.node # m_root[1].left
  /\ m_size[1] >= 3

\* C12 witness of the other case: find of an absent value that has a greater
\* element in the set returned end().
C12_WitnessAbsent ==
  /\ last.op = "find" /\ last.ret = end(1)
  /\ \E e \in Elems(heap, m_root[1]) : e > last.v

\* The tree under p is a search tree: every node's value is greater than all
\* the values in its left subtree and less than all those in its right one.
Ordered(hp, p) ==
  \A n \in Nodes(hp, p) :
    /\ \A m \in Nodes(hp, hp[n].left) : hp[m].value < hp[n].value
    /\ \A m \in Nodes(hp, hp[n].right) : hp[m].value > hp[n].value

\* C13: in the tree of every live handle, whatever it shares with the other
\* handles, every node's value is strictly greater than every value in its
\* left subtree and strictly less than every value in its right subtree.
C13_SearchTreeOrder ==
  \A h \in Handles : live[h] => Ordered(heap, m_root[h].left)

\* C13 witness: a node with two children was just erased from one handle,
\* by the swap with its predecessor, while the other handle still holds the
\* version with that node.
C13_Witness ==
  \E h, g \in Handles :
    /\ h # g /\ live[h] /\ live[g]
    /\ last.op = "erase" /\ last.h = h /\ last.aux = 2
    /\ last.v \in Elems(heap, m_root[g])
    /\ Count(g) = Count(h) + 1

\* The outcome, with the addresses the call itself saw, of the insert or
\* erase that `call` records, made in the current state.
OutcomeOf(call) ==
  IF call.op = "insert"
  THEN insert(heap, m_root[call.h], m_size[call.h], call.h, call.v, NoThrow)
  ELSE erase(heap, m_root[call.h], m_size[call.h], call.h,
             find(heap, m_root[call.h], call.h, call.v), NoThrow)

\* The nodes a search for v visits from p, down to the node that holds v.
RECURSIVE PathTo(_, _, _)
PathTo(hp, p, v) ==
  IF p = Null THEN {}
  ELSE IF hp[p].value = v THEN {p}
  ELSE {p} \cup PathTo(hp, IF v < hp[p].value THEN hp[p].left ELSE hp[p].right, v)

RECURSIVE RightSpine(_, _)
RightSpine(hp, p) == IF p = Null THEN {} ELSE {p} \cup RightSpine(hp, hp[p].right)

\* The root-to-target path of the call: the search path for the value and,
\* for an erase of a node with two children, the path on to its predecessor.
SearchPath(hp, p, call) ==
  PathTo(hp, p, call.v) \cup
  UNION {RightSpine(hp, hp[t].left) :
           t \in {n \in Nodes(hp, p) : /\ call.op = "erase"
                                       /\ hp[n].value = call.v
                                       /\ Kids(hp, n) = 2}}

\* C14: an insert or erase that changes the set leaves every node that was
\* allocated before the call, and still is, with its value, left and right
\* as they were; the nodes of the new tree that are not nodes of the old one
\* were allocated during the call; and every node of the old tree off the
\* root-to-target path is, by identity, a node of the new tree.
C14_PathCopying ==
  [][(last'.op \in {"insert", "erase"} /\ last'.flag) =>
       \E o \in {OutcomeOf(last')} :
         /\ \A n \in Ids :
              (heap[n].rc > 0 /\ o.hp[n].rc > 0) =>
                /\ o.hp[n].value = heap[n].value
                /\ o.hp[n].left = heap[n].left
                /\ o.hp[n].right = heap[n].right
         /\ \A n \in Nodes(o.hp, o.root.left) \ Nodes(heap, m_root[last'.h].left) :
              heap[n].rc = 0
         /\ Nodes(heap, m_root[last'.h].left)
              \ SearchPath(heap, m_root[last'.h].left, last')
            \subseteq Nodes(o.hp, o.root.left)]_vars

\* C14 witness: an insert into a tree that the other handle shares made a
\* tree of three nodes of which one is still shared and one is not.
C14_Witness ==
  \E h, g \in Handles :
    /\ h # g /\ live[h] /\ live[g]
    /\ last.op = "insert" /\ last.h = h /\ last.flag
    /\ Count(h) = 3 /\ Count(g) = 2
    /\ Cardinality(Nodes(heap, m_root[h].left) \cap Nodes(heap, m_root[g].left)) = 1

\* C15: ++it on an iterator obtained for element x of the set, x not erased
\* since, yields the iterator to the smallest element greater than x in the
\* set as it is now, or end(), whatever inserts and erases came in between.
C15_IncrementOnLiveTree ==
  [][(last'.op = "incr" /\ elem # NoVal /\ elem \in Elems(heap, m_root[1])) =>
       BoundAfter(last'.ret, {e \in Elems(heap, m_root[1]) : e > elem})]_vars

Greatest(S) == CHOOSE x \in S : \A y \in S : x >= y
Reverse(s) == [k \in 1..Len(s) |-> s[Len(s) + 1 - k]]

Reachable == UNION {Nodes(heap, m_root[h].left) : h \in {g \in Handles : live[g]}}

\* C17: after every operation a node is allocated exactly when a live handle
\* reaches it from its root: nothing reachable has been released, nothing
\* unreachable is kept, and with every handle cleared or destroyed the heap
\* is empty.
C17_LifetimeIsReachability ==
  \A n \in Ids : heap[n].rc > 0 <=> n \in Reachable

\* C17 witness: after an erase on one of two live handles some node is
\* reached by both, some node by one only, and the other addresses are free.
C17_Witness ==
  /\ last.op = "erase" /\ live[1] /\ live[2]
  /\ \E n \in Ids : /\ n \in Nodes(heap, m_root[1].left)
                    /\ n \in Nodes(heap, m_root[2].left)
                    /\ heap[n].rc = 2
  /\ \E n \in Ids : /\ n \in Nodes(heap, m_root[last.h].left)
                    /\ \E g \in Handles : n \notin Nodes(heap, m_root[g].left)
  /\ \E n \in Ids : heap[n].rc = 0

\* C18: after the copy assignment a = b, for any two live handles, the same
\* one included, a has the iteration sequence and the size of b, and b's are
\* what they were.
C18_CopyAssign ==
  [][last'.op = "copy_assign" =>
       /\ SequenceAfter(last'.h) = Sequence(last'.aux)
       /\ m_size'[last'.h] = m_size[last'.aux]
       /\ SequenceAfter(last'.aux) = Sequence(last'.aux)
       /\ m_size'[last'.aux] = m_size[last'.aux]]_vars

\* C18 witness: a copy assignment between two different handles left them
\* sharing a root over at least two elements.
C18_Witness ==
  /\ last.op = "copy_assign" /\ last.h # last.aux
  /\ m_root[last.h].left # Null
  /\ m_root[last.h].left = m_root[last.aux].left
  /\ heap[m_root[last.h].left].rc = 2
  /\ Len(Sequence(last.h)) >= 2

====
